---- MODULE Spec2Model ----
(***************************************************************************)
(* State machine of StateManager (state_manager.py): the annotation        *)
(* session aggregate, the training triggers of add_annotation and the      *)
(* single-flight supervision of the background prediction/training worker. *)
(*                                                                         *)
(* Encodings.  Image paths are naturals: 0 is the empty string, 1..        *)
(* NumImages are the files of the image directory, ForeignPath is a path   *)
(* of no directory.  Class names are 1..3; a raw class token c stands for  *)
(* a string whose strip() is the name c % 10 (0: whitespace only).         *)
(* Learning rates are in thousandths.  Run directories are naturals, 0 is  *)
(* None.  Worker and thread handles are worker numbers, 0 is None.         *)
(***************************************************************************)
EXTENDS Integers, Sequences, FiniteSets, TLC

\* ------------------------------------------------------------------ bounds
NumImages == 100
MaxWorkers == 2

\* --------------------------------------------------------------- constants
TRIGGER_20 == 20
TRIGGER_100 == 100
DEFAULT_EPOCHS_20 == 3
DEFAULT_LR_20 == 5
DEFAULT_EPOCHS_100 == 7
DEFAULT_LR_100 == 1

EmptyPath == 0
ForeignPath == NumImages + 1
NoRunDir == 0
NoWorker == 0

VARIABLES image_list, current_index, annotations, approved_count, class_list,
          last_successful_run_dir, settings, training_pipeline,
          blocking_task_running, current_thread, current_worker, workers,
          task_running_emits, task_running_queue, training_timers,
          session_file, handler_annotations, save_scheduled, export_pc,
          original_handler_anns, settings_file, ret

session == <<image_list, current_index, annotations, approved_count,
             class_list, last_successful_run_dir>>
task == <<blocking_task_running, current_thread, current_worker>>
export == <<export_pc, original_handler_anns>>
vars == <<image_list, current_index, annotations, approved_count, class_list,
          last_successful_run_dir, settings, training_pipeline,
          blocking_task_running, current_thread, current_worker, workers,
          task_running_emits, task_running_queue, training_timers,
          session_file, handler_annotations, save_scheduled, export_pc,
          original_handler_anns, settings_file, ret>>

\* ----------------------------------------------------------------- helpers
Range(s) == {s[i] : i \in DOMAIN s}

Min(S) == CHOOSE m \in S : \A x \in S : m <= x

RECURSIVE SortedSeq(_)
\* sorted(list(set(...)))
SortedSeq(S) == IF S = {} THEN <<>>
                ELSE <<Min(S)>> \o SortedSeq(S \ {Min(S)})

EmptyMap == [p \in {} |-> 0]

\* ------------------------------------------------------ annotation records
\* An annotation value: a dict {annotations_list, approved, negative} or a
\* value of another type (kind "other"), which only a session file can hold.
Rec(boxes, approved, negative) ==
    [kind |-> "dict", annotations_list |-> boxes,
     approved |-> approved, negative |-> negative]

NotADict == [kind |-> "other", annotations_list |-> <<>>,
             approved |-> FALSE, negative |-> FALSE]

\* isinstance(data, dict)
IsDict(d) == d.kind = "dict"

\* isinstance(d, dict) and d.get("approved")
IsApproved(d) == IsDict(d) /\ d.approved

\* the full scan of the approved records
ApprovedPaths(anns) == {p \in DOMAIN anns : IsApproved(anns[p])}

\* ------------------------------------------------------------ Python values
\* A value a setting can hold: its type, its number (of an int or a bool as
\* it is, of a float in thousandths) and its text (of a str; "inf" for the
\* float infinity).
PyValue(type, v, text) == [type |-> type, v |-> v, text |-> text]

PyNone == PyValue("NoneType", 0, "")
PyBool(b) == PyValue("bool", IF b THEN 1 ELSE 0, "")
PyInt(n) == PyValue("int", n, "")
PyFloat(thousandths) == PyValue("float", thousandths, "")
PyInf == PyValue("float", 0, "inf")
PyStr(text) == PyValue("str", 0, text)

\* the largest whole number, and the largest count of thousandths, that a
\* text is parsed to
MaxNumber == 7

IsNumber(x) == x.type \in {"int", "float", "bool"}
IsInf(x) == x.type = "float" /\ x.text = "inf"
Thousandths(x) == IF x.type = "float" THEN x.v ELSE x.v * 1000

\* a == b: numbers compare by value across int, float and bool, every
\* other value only with its like
PyEq(a, b) ==
    IF IsNumber(a) /\ IsNumber(b)
    THEN /\ IsInf(a) = IsInf(b)
         /\ IsInf(a) \/ Thousandths(a) = Thousandths(b)
    ELSE a = b

\* the truth value of x in a condition
Truthy(x) ==
    CASE IsNumber(x) -> IsInf(x) \/ x.v # 0
      [] x.type = "str" -> x.text # ""
      [] OTHER -> FALSE

\* bool(x)
bool(x) == PyBool(Truthy(x))

\* repr of the float of n thousandths: the shortest decimal
DecimalText(n) ==
    LET f == n % 1000
        digits == IF f % 100 = 0 THEN ToString(f \div 100)
                  ELSE IF f % 10 = 0
                       THEN (IF f < 100 THEN "0" ELSE "") \o ToString(f \div 10)
                       ELSE (IF f < 10 THEN "00" ELSE IF f < 100 THEN "0" ELSE "")
                                \o ToString(f)
    IN ToString(n \div 1000) \o "." \o digits

\* str(x)
str(x) ==
    CASE x.type = "str" -> x
      [] x.type = "int" -> PyStr(ToString(x.v))
      [] x.type = "bool" -> PyStr(IF x.v = 1 THEN "True" ELSE "False")
      [] x.type = "float" -> PyStr(IF IsInf(x) THEN "inf" ELSE DecimalText(x.v))
      [] OTHER -> PyStr("None")

Returned(x) == [raised |-> "none", value |-> x]
Raised(exception) == [raised |-> exception, value |-> PyNone]

\* the whole numbers and the floats (in thousandths) that have a text
WholeNumbers == 0..MaxNumber
FloatNumbers == (0..MaxNumber) \cup {1000 * n : n \in 0..MaxNumber}

\* int(x): a float is truncated, a str is parsed as a numeral
int(x) ==
    CASE x.type = "int" -> Returned(x)
      [] x.type = "bool" -> Returned(PyInt(x.v))
      [] x.type = "float" ->
            IF IsInf(x) THEN Raised("OverflowError")
            ELSE Returned(PyInt(x.v \div 1000))
      [] x.type = "str" ->
            IF \E n \in WholeNumbers : ToString(n) = x.text
            THEN Returned(PyInt(CHOOSE n \in WholeNumbers : ToString(n) = x.text))
            ELSE Raised("ValueError")
      [] OTHER -> Raised("TypeError")

\* float(x): a str is parsed as a numeral, a decimal or "inf"
float(x) ==
    CASE x.type = "float" -> Returned(x)
      [] x.type \in {"int", "bool"} -> Returned(PyFloat(x.v * 1000))
      [] x.type = "str" ->
            IF x.text = "inf" THEN Returned(PyInf)
            ELSE IF \E n \in WholeNumbers : ToString(n) = x.text
            THEN Returned(PyFloat(
                     1000 * (CHOOSE n \in WholeNumbers : ToString(n) = x.text)))
            ELSE IF \E n \in FloatNumbers : DecimalText(n) = x.text
            THEN Returned(PyFloat(
                     CHOOSE n \in FloatNumbers : DecimalText(n) = x.text))
            ELSE Raised("ValueError")
      [] OTHER -> Raised("TypeError")

\* ---------------------------------------------------------------- settings
\* config.SETTING_KEYS: short name -> dotted key
SETTING_KEYS ==
    [session_path |-> "paths.session_path",
     model_save_path |-> "paths.model_save_path",
     runs_dir |-> "paths.runs_dir",
     last_image_dir |-> "paths.last_image_dir",
     base_model |-> "prediction.base_model",
     img_size |-> "prediction.img_size",
     confidence_threshold |-> "prediction.confidence_threshold",
     epochs_20 |-> "training.epochs_20",
     lr_20 |-> "training.lr_20",
     epochs_100 |-> "training.epochs_100",
     lr_100 |-> "training.lr_100",
     aug_flipud |-> "training.augment.flipud",
     aug_fliplr |-> "training.augment.fliplr",
     aug_degrees |-> "training.augment.degrees"]

\* config.get_default_settings(), restricted to the training parameters and
\* the last image directory (the user's home directory)
DefaultSettings ==
    [k \in {"training.epochs_20", "training.lr_20",
            "training.epochs_100", "training.lr_100",
            "paths.last_image_dir"} |->
        CASE k = "training.epochs_20" -> PyInt(DEFAULT_EPOCHS_20)
          [] k = "training.lr_20" -> PyFloat(DEFAULT_LR_20)
          [] k = "training.epochs_100" -> PyInt(DEFAULT_EPOCHS_100)
          [] k = "training.lr_100" -> PyFloat(DEFAULT_LR_100)
          [] k = "paths.last_image_dir" -> PyStr("home")]

\* get_setting(key, default): the registered default wins over the caller's;
\* a boolean default makes the stored value pass through bool()
get_setting(store, key, default) ==
    LET config_default == IF key \in DOMAIN DefaultSettings
                          THEN DefaultSettings[key] ELSE PyNone
        effective_default == IF config_default # PyNone THEN config_default
                             ELSE default
        stored == IF key \in DOMAIN store THEN store[key]
                  ELSE effective_default
    IN IF effective_default.type = "bool" THEN bool(stored) ELSE stored

\* -------------------------------------------------------- training trigger
NoRequest ==
    [level |-> 0, epochs |-> PyNone, lr |-> PyNone, prefix |-> <<"none", 0>>]

\* the tier selected from the enable flags and the count
TriggerLevel(count, trigger_20_enabled, trigger_100_enabled) ==
    IF trigger_100_enabled /\ count > 0 /\ count % TRIGGER_100 = 0
    THEN TRIGGER_100
    ELSE IF trigger_20_enabled /\ count > 0 /\ count % TRIGGER_20 = 0
         THEN TRIGGER_20
         ELSE 0

\* the parameters of the selected tier
TierRequest(level, count, store) ==
    IF level = TRIGGER_100
    THEN [level |-> TRIGGER_100,
          epochs |-> get_setting(store, SETTING_KEYS.epochs_100, PyInt(DEFAULT_EPOCHS_100)),
          lr |-> get_setting(store, SETTING_KEYS.lr_100, PyFloat(DEFAULT_LR_100)),
          prefix |-> <<"major", count>>]
    ELSE IF level = TRIGGER_20
         THEN [level |-> TRIGGER_20,
               epochs |-> get_setting(store, SETTING_KEYS.epochs_20, PyInt(DEFAULT_EPOCHS_20)),
               lr |-> get_setting(store, SETTING_KEYS.lr_20, PyFloat(DEFAULT_LR_20)),
               prefix |-> <<"mini", count>>]
         ELSE NoRequest

\* The trigger block with the enable flags read under their dotted keys and
\* entered on every approved save.
TrainingTriggerOnEverySave(was_approved_before, is_approved_now, pipeline, count, store) ==
    IF is_approved_now /\ pipeline
    THEN [raised |-> FALSE,
          request |-> TierRequest(
              TriggerLevel(count,
                           Truthy(get_setting(store, "training.trigger_20_enabled", PyBool(TRUE))),
                           Truthy(get_setting(store, "training.trigger_100_enabled", PyBool(TRUE)))),
              count, store)]
    ELSE [raised |-> FALSE, request |-> NoRequest]

\* The trigger block of add_annotation.  It is entered on a fresh approval
\* with a pipeline, and first looks the two enable flags up in
\* config.SETTING_KEYS; a name SETTING_KEYS lacks raises KeyError there.
TrainingTrigger(was_approved_before, is_approved_now, pipeline, count, store) ==
    IF is_approved_now /\ ~was_approved_before /\ pipeline
    THEN IF \/ "training.trigger_20_enabled" \notin DOMAIN SETTING_KEYS
            \/ "training.trigger_100_enabled" \notin DOMAIN SETTING_KEYS
         THEN [raised |-> TRUE, request |-> NoRequest]
         ELSE [raised |-> FALSE,
               request |-> TierRequest(
                   TriggerLevel(count,
                       Truthy(get_setting(store, SETTING_KEYS["training.trigger_20_enabled"], PyBool(TRUE))),
                       Truthy(get_setting(store, SETTING_KEYS["training.trigger_100_enabled"], PyBool(TRUE)))),
                   count, store)]
    ELSE [raised |-> FALSE, request |-> NoRequest]

\* the scheduled training requests after a call that recomputed or reset
\* approved_count, with the triggers evaluated on the new count
AfterRecountTriggered(timers, pipeline, count, store) ==
    LET trig == TrainingTriggerOnEverySave(FALSE, TRUE, pipeline, count, store)
    IN IF trig.request.level # 0 THEN Append(timers, trig.request) ELSE timers

\* the scheduled training requests after load_session, update_classes or
\* load_images_from_directory set approved_count: none of them reads the
\* triggers or starts a timer
AfterRecount(timers, pipeline, count, store) == timers

\* --------------------------------------------------------- the session file
\* the file at a session path: whether it exists, whether json.load returns
\* an object for it, and the five keys save_session writes
SessionFile(exists, parseable, images, anns, index, classes, run_dir) ==
    [exists |-> exists, parseable |-> parseable, image_list |-> images,
     annotations |-> anns, current_index |-> index, class_list |-> classes,
     last_successful_run_dir |-> run_dir]

\* no file at the path
MissingFile == SessionFile(FALSE, FALSE, <<>>, EmptyMap, -1, <<>>, NoRunDir)

\* ------------------------------------------------------- the call's record
\* What the last operation was and how it ended: result is the returned
\* value or the exception that left the call, signal the error signal it
\* emitted, task_running the task_running(bool) signals it emitted in order;
\* path, is_dict, was and now are add_annotation's arguments and flags.
\* file is the file load_session read; thread is the thread the call ran on; delivered are the task_running
\* values an observer slot received during the call and observed what
\* is_task_active() answered at each of them.  listing is the sorted listing
\* load_images_from_directory found, index the argument of go_to_image,
\* handed the annotations export_data_for_yolo gave the exporter and
\* class_to_id the classes of the pipeline's class map at that call; key and
\* value are the arguments of set_setting, or the key and the returned value
\* of get_setting with default its fallback, and emitted counts the
\* settings_changed signals set_setting emitted.
Ret(op, result) ==
    [op |-> op, result |-> result, path |-> EmptyPath, was |-> FALSE,
     now |-> FALSE, request |-> NoRequest, signal |-> "none", worker |-> NoWorker,
     task_running |-> <<>>, is_dict |-> TRUE, thread |-> "control",
     delivered |-> <<>>, observed |-> <<>>, file |-> MissingFile,
     listing |-> <<>>, index |-> -1, handed |-> EmptyMap, class_to_id |-> {},
     key |-> "", value |-> PyNone, default |-> PyNone, emitted |-> 0]

\* ------------------------------------------------------ the dataset handler
\* DatasetHandler.update_annotation(path, data) on the handler's annotations
update_annotation(handler, image_path, data) == (image_path :> data) @@ handler

\* the handler's annotations after clear() and update_annotation of every
\* dict record of anns
DictRecords(anns) ==
    [p \in {q \in DOMAIN anns : IsDict(anns[q])} |-> anns[p]]

\* ------------------------------------------------------ the save timers
\* save_scheduled tells whether a QTimer.singleShot(_, self.save_session) is
\* pending.  The call with the timer left out.
AfterNoSingleShot(pending) == pending

\* QTimer.singleShot(100, self.save_session): a save is pending
AfterSingleShot(pending) == TRUE

\* a handler of the control thread runs when no other one is inside a call
ControlIdle == export_pc = "idle"

\* ----------------------------------------------------------- add_annotation
EditPaths == {1, ForeignPath}

ApprovedRecord == Rec(<<1>>, TRUE, FALSE)

EditRecords == {Rec(<<1, 2>>, TRUE, FALSE), Rec(<<2>>, FALSE, FALSE),
                Rec(<<>>, TRUE, TRUE)}

\* the approval-flag transition applied to approved_count, clamped at 0,
\* with the decrement left out
AdjustedCountNoDecrement(count, was_approved_before, is_approved_now) ==
    IF is_approved_now /\ ~was_approved_before THEN count + 1 ELSE count

\* the approval-flag transition applied to approved_count, clamped at 0
AdjustedCount(count, was_approved_before, is_approved_now) ==
    LET adjusted ==
            IF is_approved_now /\ ~was_approved_before THEN count + 1
            ELSE IF ~is_approved_now /\ was_approved_before THEN count - 1
            ELSE count
    IN IF adjusted < 0 THEN 0 ELSE adjusted

AddAnnotationCall(image_path, annotation_data) ==
    IF image_path = EmptyPath \/ ~IsDict(annotation_data)
    THEN /\ ret' = [Ret("add_annotation", "False")
                       EXCEPT !.path = image_path,
                              !.is_dict = IsDict(annotation_data)]
         /\ UNCHANGED <<session, settings, settings_file, session_file,
                        handler_annotations, save_scheduled, export,
                        training_pipeline, task, workers, task_running_emits,
                        task_running_queue, training_timers>>
    ELSE IF image_path \in DOMAIN annotations /\ ~IsDict(annotations[image_path])
    THEN \* self.annotations.get(image_path, {}).get(...) on a non-dict value
         /\ ret' = [Ret("add_annotation", "AttributeError") EXCEPT !.path = image_path]
         /\ UNCHANGED <<session, settings, settings_file, session_file,
                        handler_annotations, save_scheduled, export,
                        training_pipeline, task, workers, task_running_emits,
                        task_running_queue, training_timers>>
    ELSE LET was_approved_before ==
                 image_path \in DOMAIN annotations /\ annotations[image_path].approved
             is_approved_now == annotation_data.approved
             new_count == AdjustedCount(approved_count, was_approved_before,
                                        is_approved_now)
             trig == TrainingTrigger(was_approved_before, is_approved_now,
                                     training_pipeline, new_count, settings)
         IN /\ annotations' = (image_path :> annotation_data) @@ annotations
            /\ approved_count' = new_count
            /\ training_timers' = IF trig.request.level # 0
                                  THEN Append(training_timers, trig.request)
                                  ELSE training_timers
            /\ ret' = [Ret("add_annotation",
                           IF trig.raised THEN "KeyError" ELSE "True")
                          EXCEPT !.path = image_path, !.was = was_approved_before,
                                 !.now = is_approved_now, !.request = trig.request]
            /\ handler_annotations' =
                    update_annotation(handler_annotations, image_path, annotation_data)
            /\ save_scheduled' = AfterSingleShot(save_scheduled)
            /\ UNCHANGED <<image_list, current_index, class_list,
                           last_successful_run_dir, settings, settings_file,
                           session_file, export, training_pipeline, task,
                           workers, task_running_emits, task_running_queue>>

\* add_annotation(path, data) on the paths and records under edit
AddAnnotation ==
    /\ ControlIdle
    /\ \E image_path \in {EmptyPath} \cup EditPaths,
          annotation_data \in EditRecords \cup {NotADict} :
        AddAnnotationCall(image_path, annotation_data)

\* the images of image_list that approve_image has not yet been through
Unannotated == {p \in Range(image_list) : p \notin DOMAIN annotations}

\* approve_image: the window approves the next unannotated image
ApproveImage ==
    /\ ControlIdle
    /\ Unannotated # {}
    /\ AddAnnotationCall(Min(Unannotated), ApprovedRecord)

\* the workers after a call replaced the session: the training tasks that
\* run or wait for their handler were started before the replacement
SessionReplaced(ws) ==
    [w \in DOMAIN ws |->
        IF ws[w].kind = "TrainingWorker" /\ ws[w].status \in {"running", "finished"}
        THEN [ws[w] EXCEPT !.replaced = TRUE]
        ELSE ws[w]]

\* ------------------------------------------------------------- load_session
\* os.path.isdir(run_dir) holds of the run directories in ExistingRunDirs
ExistingRunDirs == {1}
StaleRunDir == 2

\* a file json.load rejects, or for which it returns no object
CorruptFile == SessionFile(TRUE, FALSE, <<>>, EmptyMap, -1, <<>>, NoRunDir)

\* a saved session of the image directory with its first k images approved
ApprovedFile(k) ==
    SessionFile(TRUE, TRUE, [i \in 1..NumImages |-> i],
                [p \in 1..k |-> ApprovedRecord], k, <<1>>, 1)

\* a session file in need of repair: a non-dict value, a key outside
\* image_list, an index out of range, a stale run directory
RepairFile ==
    SessionFile(TRUE, TRUE, <<1, 2, 3>>,
                (1 :> NotADict) @@ (2 :> Rec(<<1, 3>>, TRUE, FALSE))
                  @@ (3 :> Rec(<<2>>, FALSE, FALSE)) @@ (ForeignPath :> ApprovedRecord),
                7, <<3, 1, 1>>, StaleRunDir)

\* a session file saved before its images were loaded: index -1, an image
\* list, a record for an image not in it
UnindexedFile ==
    SessionFile(TRUE, TRUE, <<2, 1>>,
                (1 :> Rec(<<1>>, TRUE, FALSE)) @@ (3 :> ApprovedRecord),
                -1, <<>>, 1)

\* a session with a negative image that still holds boxes, beside an
\* approved image with the same boxes; box 0 is a box without a class
NegativeFile ==
    SessionFile(TRUE, TRUE, <<1, 2>>,
                (1 :> Rec(<<3, 1, 0>>, TRUE, TRUE))
                  @@ (2 :> Rec(<<3, 1, 0>>, TRUE, FALSE)),
                1, <<1, 3>>, NoRunDir)

PreloadCounts == {TRIGGER_20 - 1, TRIGGER_100 - 1}

\* the files without a preloaded directory
RepairFiles == {MissingFile, CorruptFile, RepairFile, UnindexedFile, NegativeFile}

SessionFiles == RepairFiles \cup {ApprovedFile(k) : k \in PreloadCounts}

\* the session aggregate as one value
Aggregate ==
    [image_list |-> image_list, annotations |-> annotations,
     current_index |-> current_index, approved_count |-> approved_count,
     class_list |-> class_list,
     last_successful_run_dir |-> last_successful_run_dir]

\* the aggregate a load of a missing file leaves, with the reset left out
KeptSession(cur) == cur

\* the aggregate a load of a missing file leaves: everything but class_list
\* is reset
EmptySession(cur) ==
    [cur EXCEPT !.image_list = <<>>, !.annotations = EmptyMap,
                !.current_index = -1, !.approved_count = 0,
                !.last_successful_run_dir = NoRunDir]

\* the aggregate a load leaves when json.load or session_data.get raises,
\* with the fields reset as for a missing file
AfterParseFailureReset(cur) == EmptySession(cur)

\* the aggregate a load leaves when json.load or session_data.get raises:
\* both except clauses return False and assign nothing
AfterParseFailure(cur) == cur

\* the loaded annotations with every key kept
UnprunedAnnotations(anns, images) == anns

\* the loaded annotations without the keys that are not in the image list
PrunedAnnotations(anns, images) ==
    [p \in {q \in DOMAIN anns : q \in Range(images)} |-> anns[p]]

\* the loaded index taken as stored
LoadedIndexUnchecked(index, images) == index

\* the loaded index: kept when it is in range, else reset to 0, or to -1
\* for an empty image list
LoadedIndex(index, images) ==
    IF 0 <= index /\ index < Len(images) THEN index
    ELSE IF images # <<>> THEN 0 ELSE -1

\* the aggregate after load_session reads file f
LoadedSession(f, cur) ==
    IF ~f.exists THEN EmptySession(cur)
    ELSE IF ~f.parseable THEN AfterParseFailure(cur)
    ELSE LET new_classes == SortedSeq(Range(f.class_list))
             anns == PrunedAnnotations(f.annotations, f.image_list)
         IN [image_list |-> f.image_list,
             annotations |-> anns,
             current_index |-> LoadedIndex(f.current_index, f.image_list),
             approved_count |-> Cardinality(ApprovedPaths(anns)),
             class_list |-> IF f.class_list # <<>> /\ new_classes # cur.class_list
                            THEN new_classes ELSE cur.class_list,
             last_successful_run_dir |->
                 IF f.last_successful_run_dir \in ExistingRunDirs
                 THEN f.last_successful_run_dir ELSE NoRunDir]

\* load_session(file_path) reading file f; source tells the explicit
\* file_path argument from the session path of the settings, marked whether
\* the history of the replaced sessions is kept
LoadSessionMarking(f, source, marked) ==
    LET loaded == LoadedSession(f, Aggregate)
    IN /\ ControlIdle
       /\ image_list' = loaded.image_list
       /\ annotations' = loaded.annotations
       /\ current_index' = loaded.current_index
       /\ approved_count' = loaded.approved_count
       /\ class_list' = loaded.class_list
       /\ last_successful_run_dir' = loaded.last_successful_run_dir
       /\ ret' = [Ret("load_session",
                      IF f.exists /\ ~f.parseable THEN "False" ELSE "True")
                     EXCEPT !.file = f, !.signal = source]
       /\ handler_annotations' =
               IF ~f.exists THEN EmptyMap
               ELSE IF ~f.parseable THEN handler_annotations
               ELSE DictRecords(loaded.annotations)
       /\ training_timers' = AfterRecount(training_timers, training_pipeline,
                                          loaded.approved_count, settings)
       /\ workers' = IF marked /\ (~f.exists \/ f.parseable)
                      THEN SessionReplaced(workers) ELSE workers
       /\ UNCHANGED <<settings, settings_file, session_file, save_scheduled,
                      export, training_pipeline, task, task_running_emits,
                      task_running_queue>>

\* load_session(file_path) with the history of the replaced sessions kept
LoadSessionFrom(f, source) == LoadSessionMarking(f, source, TRUE)

\* load_session(file_path) of a file the user picks
LoadSession == \E f \in SessionFiles : LoadSessionFrom(f, "file_path")

\* load_session_explicitly of the window: load_session(file_path) of one of
\* the small files
ImportSession == \E f \in RepairFiles : LoadSessionFrom(f, "file_path")

\* the session the window opens before any task is started; the history of
\* the replaced sessions is not kept here, where every training ends with
\* the run directory of the file
OpenSession == LoadSessionMarking(UnindexedFile, "file_path", FALSE)

\* load_session(file_path) of a session saved with a trigger count of
\* approved images, or with a negative image
ReloadSession ==
    \E f \in {ApprovedFile(k) : k \in {TRIGGER_20, TRIGGER_100}} \cup {NegativeFile} :
        LoadSessionFrom(f, "file_path")

\* load_session() of the file at the session path
LoadSavedSession == LoadSessionFrom(session_file, "session_path")

\* ------------------------------------------------------------- save_session
\* the session written with the image_list key left empty
SessionDataNoImages(cur) ==
    SessionFile(TRUE, TRUE, <<>>, cur.annotations, cur.current_index,
                cur.class_list, cur.last_successful_run_dir)

\* session_data, as json.dump writes it and json.load reads it back: lists
\* of strings, a dict keyed by strings whose records hold lists, integers,
\* strings and booleans, an integer, a string or null
SessionData(cur) ==
    SessionFile(TRUE, TRUE, cur.image_list, cur.annotations, cur.current_index,
                cur.class_list, cur.last_successful_run_dir)

\* how the write ends: done; open() raises and the file is as before;
\* json.dump raises after open() truncated the file
SaveOutcomes == {"ok", "open_fails", "dump_fails"}

WrittenFile(outcome, data, old) ==
    CASE outcome = "ok" -> data
      [] outcome = "open_fails" -> old
      [] outcome = "dump_fails" -> CorruptFile

\* save_session()
SaveSession ==
    \E outcome \in SaveOutcomes :
        /\ session_file' = WrittenFile(outcome, SessionData(Aggregate), session_file)
        /\ ret' = [Ret("save_session", "None") EXCEPT !.signal = outcome]
        /\ UNCHANGED <<session, settings, settings_file, handler_annotations,
                       save_scheduled, export, training_pipeline, task,
                       workers, task_running_emits, task_running_queue,
                       training_timers>>

\* a pending single-shot timer fires and runs save_session(); last tells
\* whether it was the only one pending
FireSaveTimer ==
    \E outcome \in SaveOutcomes, last \in BOOLEAN :
        /\ ControlIdle
        /\ save_scheduled
        /\ save_scheduled' = ~last
        /\ session_file' = WrittenFile(outcome, SessionData(Aggregate), session_file)
        /\ ret' = [Ret("save_timer", "None") EXCEPT !.signal = outcome]
        /\ UNCHANGED <<session, settings, settings_file, handler_annotations,
                       export, training_pipeline, task, workers,
                       task_running_emits, task_running_queue, training_timers>>

\* ----------------------------------------------- load_images_from_directory
Directory(exists, files) ==
    [exists |-> exists, image_files |-> SortedSeq(files)]

SmallDirSize == 3

Directories == {Directory(FALSE, {}), Directory(TRUE, {}),
                Directory(TRUE, 1..NumImages), Directory(TRUE, 1..SmallDirSize)}

\* the comparison with the listing taken as always different
IsNewOrDifferentAlways(image_files, images) == TRUE

\* the comparison with the listing taken as never different
IsNewOrDifferentNever(image_files, images) == FALSE

\* is_new_or_different = set(image_files) != set(self.image_list)
IsNewOrDifferent(image_files, images) == Range(image_files) # Range(images)

\* if not image_files: the directory holds no supported image
NoImagesFound(image_files) == image_files = <<>>

\* the index after a reset: -1 for an empty listing, 0 for another one
ResetIndex(image_files) == IF image_files = <<>> THEN -1 ELSE 0

\* the branch the call logs: the state was cleared for an empty listing,
\* reset for a different one, or left as it was
LoadBranch(image_files, images) ==
    IF NoImagesFound(image_files) THEN "cleared"
    ELSE IF IsNewOrDifferent(image_files, images) THEN "reset"
    ELSE "unchanged"

\* load_images_from_directory(directory_path); d is what os.listdir finds
LoadImagesFromDirectory ==
    \E d \in Directories :
        /\ ControlIdle
        /\ IF ~d.exists
           THEN /\ ret' = Ret("load_images_from_directory", "FileNotFoundError")
                /\ UNCHANGED <<session, settings, settings_file, session_file,
                               handler_annotations, save_scheduled, export,
                               training_pipeline, task, workers,
                               task_running_emits, task_running_queue,
                               training_timers>>
           ELSE LET reset == LoadBranch(d.image_files, image_list) # "unchanged"
                    images == IF reset THEN d.image_files ELSE image_list
                    index == IF reset THEN ResetIndex(d.image_files)
                             ELSE current_index
                IN /\ image_list' = images
                   /\ annotations' = IF reset THEN EmptyMap ELSE annotations
                   /\ approved_count' = IF reset THEN 0 ELSE approved_count
                   /\ last_successful_run_dir' =
                           IF reset THEN NoRunDir ELSE last_successful_run_dir
                   /\ handler_annotations' =
                           IF reset THEN EmptyMap ELSE handler_annotations
                   /\ current_index' =
                           IF 0 <= index /\ index < Len(images) THEN index
                           ELSE IF images # <<>> THEN 0 ELSE -1
                   /\ ret' = [Ret("load_images_from_directory", "None")
                                 EXCEPT !.listing = d.image_files,
                                        !.signal = LoadBranch(d.image_files,
                                                              image_list)]
                   /\ training_timers' =
                           AfterRecount(training_timers, training_pipeline,
                                        IF reset THEN 0 ELSE approved_count,
                                        settings)
                   /\ workers' = IF reset THEN SessionReplaced(workers)
                                  ELSE workers
                   /\ UNCHANGED <<class_list, settings, settings_file,
                                  session_file, save_scheduled, export,
                                  training_pipeline, task, task_running_emits,
                                  task_running_queue>>

\* --------------------------------------------------------------- navigation
\* the index after next_image, with the test of the last index left out
NextIndexUnbounded(index, n) == index + 1

\* the index after next_image(): one further unless the list is empty or
\* the index is the last one
NextIndex(index, n) ==
    IF n # 0 /\ index < n - 1 THEN index + 1 ELSE index

\* the index after prev_image(): one back unless the list is empty or the
\* index is the first one
PrevIndex(index, n) ==
    IF n # 0 /\ index > 0 THEN index - 1 ELSE index

\* the test of go_to_image with the length taken as an index
ValidIndexInclusive(index, n) == n # 0 /\ 0 <= index /\ index <= n

\* self.image_list and 0 <= index < len(self.image_list)
ValidIndex(index, n) == n # 0 /\ 0 <= index /\ index < n

\* the calls of the window: a step, a click on a row of the list, and the
\* indices around the ends of the lists
GoToInputs == {-1, 0, 1, SmallDirSize - 1, SmallDirSize,
               NumImages - 1, NumImages}

Navigate(op, new_index, moved, index) ==
    /\ ControlIdle
    /\ current_index' = new_index
    /\ ret' = [Ret(op, IF moved THEN "True" ELSE "False") EXCEPT !.index = index]
    /\ UNCHANGED <<image_list, annotations, approved_count, class_list,
                   last_successful_run_dir, settings, settings_file,
                   session_file, handler_annotations, save_scheduled, export,
                   training_pipeline, task, workers, task_running_emits,
                   task_running_queue, training_timers>>

\* next_image()
NextImage ==
    LET new_index == NextIndex(current_index, Len(image_list))
    IN Navigate("next_image", new_index, new_index # current_index, -1)

\* prev_image()
PrevImage ==
    LET new_index == PrevIndex(current_index, Len(image_list))
    IN Navigate("prev_image", new_index, new_index # current_index, -1)

\* go_to_image(index) with an integer index
GoToImage ==
    \E index \in GoToInputs :
        LET valid == ValidIndex(index, Len(image_list))
        IN Navigate("go_to_image", IF valid THEN index ELSE current_index,
                    valid, index)

\* ----------------------------------------------------------- update_classes
\* str(cls).strip() of a raw class token
Strip(cls) == cls % 10

\* the boxes whose class is in the new class set
FilterBoxes(boxes, valid_new_set) ==
    SelectSeq(boxes, LAMBDA b : b \in valid_new_set)

\* the record update_classes stores for a dict record, with the boxes of a
\* negative record filtered as well
UpdatedRecordNegativeToo(data, valid_new_set) ==
    [data EXCEPT !.annotations_list = FilterBoxes(@, valid_new_set)]

\* the record update_classes stores for a dict record
UpdatedRecord(data, valid_new_set) ==
    IF data.negative THEN data
    ELSE [data EXCEPT !.annotations_list = FilterBoxes(@, valid_new_set)]

ClassListInputs == {<<1>>, <<2, 1>>, <<12, 1, 0, 2>>, <<3, 1>>}

UpdateClasses ==
    \E new_class_list \in ClassListInputs, outcome \in SaveOutcomes :
        ControlIdle /\
        LET new_classes_clean ==
                SortedSeq({Strip(c) : c \in Range(new_class_list)} \ {0})
            valid_new_set == Range(new_classes_clean)
            updated_anns ==
                [p \in {q \in DOMAIN annotations : IsDict(annotations[q])} |->
                    UpdatedRecord(annotations[p], valid_new_set)]
            updated == [Aggregate EXCEPT
                           !.class_list = new_classes_clean,
                           !.annotations = updated_anns,
                           !.approved_count = Cardinality(ApprovedPaths(updated_anns))]
        IN IF new_classes_clean # class_list
           THEN /\ class_list' = updated.class_list
                /\ annotations' = updated.annotations
                /\ approved_count' = updated.approved_count
                /\ session_file' = WrittenFile(outcome, SessionData(updated),
                                               session_file)
                /\ handler_annotations' = DictRecords(updated_anns)
                /\ ret' = [Ret("update_classes", "None") EXCEPT !.signal = outcome]
                /\ training_timers' =
                        AfterRecount(training_timers, training_pipeline,
                                     updated.approved_count, settings)
                /\ UNCHANGED <<image_list, current_index,
                               last_successful_run_dir, settings,
                               settings_file, save_scheduled, export,
                               training_pipeline, task, workers,
                               task_running_emits, task_running_queue>>
           ELSE /\ outcome = "ok"
                /\ ret' = Ret("update_classes", "None")
                /\ UNCHANGED <<session, settings, settings_file, session_file,
                               handler_annotations, save_scheduled, export,
                               training_pipeline, task, workers,
                               task_running_emits, task_running_queue,
                               training_timers>>

\* ----------------------------------------------- the user settings file
\* user_settings.json: top is the type of the JSON document, content the
\* members of an object
SettingsFile(exists, parseable, top, content) ==
    [exists |-> exists, parseable |-> parseable, top |-> top,
     content |-> content]

MissingSettings == SettingsFile(FALSE, FALSE, "object", EmptyMap)
CorruptSettings == SettingsFile(TRUE, FALSE, "object", EmptyMap)

\* json.dump(self._settings, f)
SettingsData(store) == SettingsFile(TRUE, TRUE, "object", store)

\* the files a user or another program left: no file, no JSON, a number, a
\* string, an empty object, well-typed values, and values of other types
\* than the defaults have
SettingsFiles ==
    {MissingSettings, CorruptSettings,
     SettingsFile(TRUE, TRUE, "number", EmptyMap),
     SettingsFile(TRUE, TRUE, "string", EmptyMap),
     SettingsData(EmptyMap),
     SettingsData("training.epochs_20" :> PyInt(DEFAULT_EPOCHS_20 + 1)),
     SettingsData("training.epochs_20" :> PyStr("many")),
     SettingsData("training.lr_20" :> PyNone)}

\* load_settings(): the defaults, updated with the members of the file; a
\* file that is no JSON, or a JSON number, leaves the defaults (TypeError is
\* caught), a JSON string makes dict.update raise ValueError, which is not
\* caught
LoadedSettings(f) ==
    IF f.exists /\ f.parseable /\ f.top = "object"
    THEN [raised |-> "none", store |-> f.content @@ DefaultSettings]
    ELSE IF f.exists /\ f.parseable /\ f.top = "string"
         THEN [raised |-> "ValueError", store |-> DefaultSettings]
         ELSE [raised |-> "none", store |-> DefaultSettings]

\* save_settings(): every failure is logged and swallowed
WrittenSettings(outcome, store, old) ==
    CASE outcome = "ok" -> SettingsData(store)
      [] outcome = "open_fails" -> old
      [] outcome = "dump_fails" -> CorruptSettings

\* ---------------------------------------------------------------- set_setting
\* type(default_val), None for a key without a default
ExpectedType(key) ==
    IF key \in DOMAIN DefaultSettings THEN DefaultSettings[key].type
    ELSE "NoneType"

\* the conversion of set_setting's try block
Coerced(expected_type, value) ==
    CASE expected_type = "bool" -> Returned(bool(value))
      [] expected_type = "int" -> int(value)
      [] expected_type = "float" -> float(value)
      [] expected_type = "str" -> Returned(str(value))
      [] OTHER -> Returned(value)

\* the test before the store, left out
ValueChangedAlways(original_value, new_value) == TRUE

\* original_value != new_value
ValueChanged(original_value, new_value) == ~PyEq(original_value, new_value)

\* self._settings.get(key)
OriginalValue(store, key) == IF key \in DOMAIN store THEN store[key] ELSE PyNone

\* set_setting(key, value) with the outcome of the write of save_settings.
\* update_internal_from_settings hands the store to the pipeline, whose
\* exceptions it catches; the session path is not among the keys set here.
SetSettingCall(key, value, outcome) ==
    LET original_value == OriginalValue(settings, key)
        new == Coerced(ExpectedType(key), value)
        caught == new.raised \in {"ValueError", "TypeError"}
        changed == new.raised = "none" /\ ValueChanged(original_value, new.value)
    IN /\ settings' = IF changed THEN (key :> new.value) @@ settings
                      ELSE settings
       /\ settings_file' = IF changed
                           THEN WrittenSettings(outcome, settings', settings_file)
                           ELSE settings_file
       /\ ret' = [Ret("set_setting",
                      IF new.raised = "none" \/ caught THEN "None"
                      ELSE new.raised)
                     EXCEPT !.key = key, !.value = value,
                            !.signal = IF changed THEN outcome ELSE "none",
                            !.emitted = IF changed THEN 1 ELSE 0]
       /\ UNCHANGED <<session, session_file, handler_annotations,
                      save_scheduled, export, training_pipeline, task, workers,
                      task_running_emits, task_running_queue, training_timers>>

\* The window's check boxes of the two training triggers.  The flags are
\* stored under their dotted keys; config.get_default_settings() has no
\* default for them, so set_setting stores the value uncoerced
TriggerFlagKeys == {"training.trigger_20_enabled", "training.trigger_100_enabled"}

\* the write of save_settings succeeds here; ApplySetting has its failures
SetSetting ==
    \E key \in TriggerFlagKeys, value \in {PyBool(TRUE), PyBool(FALSE)} :
        SetSettingCall(key, value, "ok")

\* the calls of the other callers, as <<key, value>>: on the int setting a
\* new value, the stored one, a float that truncates to it, the infinity, a
\* numeral, a word and None; on the float setting the stored value, its
\* decimal text and a word; on the str setting the stored text and
\* an int; on a key without a default a bool and the int equal to it
SettingCalls ==
    {<<"training.epochs_20", PyInt(DEFAULT_EPOCHS_20 + 1)>>,
     <<"training.epochs_20", PyInt(DEFAULT_EPOCHS_20)>>,
     <<"training.epochs_20", PyFloat(1000 * DEFAULT_EPOCHS_20 + 500)>>,
     <<"training.epochs_20", PyInf>>,
     <<"training.epochs_20", PyStr(ToString(DEFAULT_EPOCHS_20 + 1))>>,
     <<"training.epochs_20", PyStr("many")>>,
     <<"training.epochs_20", PyNone>>,
     <<"training.lr_20", PyFloat(DEFAULT_LR_20)>>,
     <<"training.lr_20", PyStr(DecimalText(DEFAULT_LR_20))>>,
     <<"training.lr_20", PyStr("many")>>,
     <<"paths.last_image_dir", PyStr("home")>>,
     <<"paths.last_image_dir", PyInt(DEFAULT_EPOCHS_20 + 1)>>,
     <<"training.trigger_20_enabled", PyBool(TRUE)>>,
     <<"training.trigger_20_enabled", PyInt(1)>>}

ApplySetting ==
    \E call \in SettingCalls, outcome \in SaveOutcomes :
        SetSettingCall(call[1], call[2], outcome)

\* load_settings() on the file found at the user settings path
LoadSettings ==
    \E f \in SettingsFiles :
        LET loaded == LoadedSettings(f)
        IN /\ settings' = loaded.store
           /\ settings_file' = f
           /\ ret' = Ret("load_settings",
                         IF loaded.raised = "none" THEN "None"
                         ELSE loaded.raised)
           /\ UNCHANGED <<session, session_file, handler_annotations,
                          save_scheduled, export, training_pipeline, task,
                          workers, task_running_emits, task_running_queue,
                          training_timers>>

\* the fallbacks of the callers of get_setting
SettingFallbacks == {PyNone, PyBool(TRUE), PyInt(DEFAULT_EPOCHS_20)}

\* get_setting(key, default)
GetSetting ==
    \E key \in DOMAIN DefaultSettings \cup TriggerFlagKeys,
       default \in SettingFallbacks :
        /\ ret' = [Ret("get_setting", "None")
                      EXCEPT !.key = key, !.default = default,
                             !.value = get_setting(settings, key, default)]
        /\ UNCHANGED <<session, settings, settings_file, session_file,
                       handler_annotations, save_scheduled, export,
                       training_pipeline, task, workers, task_running_emits,
                       task_running_queue, training_timers>>

\* ----------------------------------------------------------- task management
MaxProgress == 1

\* a worker object with its thread; notifications are the StateManager
\* signals its own signals were relayed to, in order; replaced records that
\* the session was replaced while the task was not yet handled (a history
\* of the run, which no code reads)
Worker(kind, request) ==
    [kind |-> kind, status |-> "running", result |-> NoRunDir,
     request |-> request, stop |-> FALSE, notifications |-> <<>>,
     replaced |-> FALSE]

Running == {w \in DOMAIN workers : workers[w].status = "running"}

\* the thread a slot runs on when the signal is emitted on emitter_thread by
\* an object living there: a lambda has no receiver object, so it runs where
\* the signal is emitted; a bound method or a signal of a QObject runs on the
\* thread its object lives on
SlotThread(slot, emitter_thread, receiver_thread) ==
    IF slot = "lambda" THEN emitter_thread ELSE receiver_thread

\* the progress / finished / error connections of _start_task, with the
\* finished signal also connected to the error notification
RelayedToBoth(kind, signal) ==
    IF kind = "PredictionWorker"
    THEN CASE signal = "progress" -> <<"prediction_progress">>
           [] signal = "finished" -> <<"prediction_finished", "prediction_error">>
           [] signal = "error" -> <<"prediction_error">>
    ELSE CASE signal = "progress" -> <<"training_progress">>
           [] signal = "finished" -> <<"training_run_completed", "training_error">>
           [] signal = "error" -> <<"training_error">>

\* the progress / finished / error connections of _start_task: the
\* StateManager signals a worker's signal is relayed to
Relayed(kind, signal) ==
    IF kind = "PredictionWorker"
    THEN CASE signal = "progress" -> <<"prediction_progress">>
           [] signal = "finished" -> <<"prediction_finished">>
           [] signal = "error" -> <<"prediction_error">>
    ELSE CASE signal = "progress" -> <<"training_progress">>
           [] signal = "finished" -> <<"training_run_completed">>
           [] signal = "error" -> <<"training_error">>

ProgressSignals == {"prediction_progress", "training_progress"}

TerminalSignals == {"prediction_finished", "prediction_error",
                    "training_run_completed", "training_error"}

\* start_training_task without the refusal of an empty training set
HasApprovedPathsUnchecked(anns) == TRUE

\* the approved records start_training_task collects are not empty
HasApprovedPaths(anns) == ApprovedPaths(anns) # {}

\* _start_task without the busy check
StartTaskUnguarded(op, kind, request, setup_ok) ==
    IF ~training_pipeline
    THEN /\ ret' = [Ret(op, "False") EXCEPT !.signal = "Pipeline unavailable",
                                            !.request = request]
         /\ UNCHANGED <<task, workers, task_running_emits>>
    ELSE IF setup_ok
    THEN /\ Len(workers) < MaxWorkers
         /\ blocking_task_running' = TRUE
         /\ workers' = Append(workers, Worker(kind, request))
         /\ task_running_emits' = Append(task_running_emits, 0)
         /\ current_thread' = Len(workers) + 1
         /\ current_worker' = Len(workers) + 1
         /\ ret' = [Ret(op, "True") EXCEPT !.worker = Len(workers) + 1,
                                           !.request = request,
                                           !.task_running = <<TRUE>>,
                                           !.delivered = <<TRUE>>,
                                           !.observed = <<TRUE>>]
    ELSE /\ blocking_task_running' = FALSE
         /\ current_thread' = NoWorker
         /\ current_worker' = NoWorker
         /\ ret' = [Ret(op, "False") EXCEPT !.signal = "Setup error",
                                            !.request = request,
                                            !.task_running = <<TRUE, FALSE>>,
                                            !.delivered = <<TRUE, FALSE>>,
                                            !.observed = <<TRUE, FALSE>>]
         /\ UNCHANGED <<workers, task_running_emits>>

\* _start_task(worker_class, *args); setup_ok: the worker's constructor and
\* the thread start do not raise.  The call runs on the control thread, so
\* the observers of task_running are called inside the emit.
StartTask(op, kind, request, setup_ok) ==
    IF ~training_pipeline
    THEN /\ ret' = [Ret(op, "False") EXCEPT !.signal = "Pipeline unavailable",
                                            !.request = request]
         /\ UNCHANGED <<task, workers, task_running_emits>>
    ELSE IF blocking_task_running
    THEN /\ ret' = [Ret(op, "False") EXCEPT !.signal = "Busy",
                                            !.request = request]
         /\ UNCHANGED <<task, workers, task_running_emits>>
    ELSE IF setup_ok
    THEN /\ Len(workers) < MaxWorkers
         /\ blocking_task_running' = TRUE
         /\ workers' = Append(workers, Worker(kind, request))
         /\ task_running_emits' = Append(task_running_emits, 0)
         /\ current_thread' = Len(workers) + 1
         /\ current_worker' = Len(workers) + 1
         /\ ret' = [Ret(op, "True") EXCEPT !.worker = Len(workers) + 1,
                                           !.request = request,
                                           !.task_running = <<TRUE>>,
                                           !.delivered = <<TRUE>>,
                                           !.observed = <<TRUE>>]
    ELSE /\ blocking_task_running' = FALSE
         /\ current_thread' = NoWorker
         /\ current_worker' = NoWorker
         /\ ret' = [Ret(op, "False") EXCEPT !.signal = "Setup error",
                                            !.request = request,
                                            !.task_running = <<TRUE, FALSE>>,
                                            !.delivered = <<TRUE, FALSE>>,
                                            !.observed = <<TRUE, FALSE>>]
         /\ UNCHANGED <<workers, task_running_emits>>

\* start_prediction(image_path)
StartPrediction ==
    \E setup_ok \in BOOLEAN :
        /\ StartTask("start_prediction", "PredictionWorker", NoRequest, setup_ok)
        /\ UNCHANGED <<session, settings, settings_file, session_file,
                       handler_annotations, save_scheduled, export,
                       training_pipeline, training_timers, task_running_queue>>

\* force_mini_training of the window: the minor-tier parameters, prefix
\* force_mini
ForcedRequest(store) ==
    [level |-> TRIGGER_20,
     epochs |-> get_setting(store, SETTING_KEYS.epochs_20, PyInt(DEFAULT_EPOCHS_20)),
     lr |-> get_setting(store, SETTING_KEYS.lr_20, PyFloat(DEFAULT_LR_20)),
     prefix |-> <<"force_mini", 0>>]

\* start_training_task(epochs, lr, run_name_prefix), called by the window
\* (timer 0) or by the first single-shot timer add_annotation set (timer 1)
StartTrainingTask ==
    \E timer \in {0} \cup (DOMAIN training_timers \cap {1}), setup_ok \in BOOLEAN :
        LET request == IF timer = 0 THEN ForcedRequest(settings)
                       ELSE training_timers[timer]
        IN /\ training_timers' = IF timer = 0 THEN training_timers
                                 ELSE Tail(training_timers)
           /\ IF ~HasApprovedPaths(annotations)
              THEN /\ ret' = [Ret("start_training_task", "False")
                                 EXCEPT !.signal = "No approved images",
                                        !.request = request]
                   /\ UNCHANGED <<task, workers, task_running_emits>>
              ELSE StartTask("start_training_task", "TrainingWorker", request, setup_ok)
           /\ UNCHANGED <<session, settings, settings_file, session_file,
                          handler_annotations, save_scheduled, export,
                          training_pipeline, task_running_queue>>

\* the progress notifications relayed so far, over all workers
ProgressRelayed ==
    {<<w, i>> \in (DOMAIN workers) \X (1..MaxProgress) :
        /\ i \in DOMAIN workers[w].notifications
        /\ workers[w].notifications[i] \in ProgressSignals}

\* the worker's run() reports progress(message) before it ends
WorkerProgress ==
    \E w \in Running :
        /\ Cardinality(ProgressRelayed) < MaxProgress
        /\ workers' = [workers EXCEPT ![w].notifications =
                          @ \o Relayed(workers[w].kind, "progress")]
        /\ ret' = [Ret("worker_progress", "None")
                      EXCEPT !.worker = w, !.thread = "worker"]
        /\ UNCHANGED <<session, settings, settings_file, session_file,
                       handler_annotations, save_scheduled, export,
                       training_pipeline, task, task_running_emits,
                       task_running_queue, training_timers>>

\* the worker's run() ends with finished(result): a training worker delivers
\* its run directory, a prediction worker its list of boxes
WorkerFinished ==
    \E w \in Running, run_dir \in ExistingRunDirs \cup {StaleRunDir} :
        /\ workers[w].kind = "PredictionWorker" => run_dir = StaleRunDir
        /\ workers' = [workers EXCEPT ![w].status = "finished",
                          ![w].result = IF workers[w].kind = "TrainingWorker"
                                        THEN run_dir ELSE NoRunDir,
                          ![w].notifications =
                              @ \o Relayed(workers[w].kind, "finished")]
        /\ ret' = [Ret("worker_finished", "None")
                      EXCEPT !.worker = w, !.thread = "worker"]
        /\ UNCHANGED <<session, settings, settings_file, session_file,
                       handler_annotations, save_scheduled, export,
                       training_pipeline, task, task_running_emits,
                       task_running_queue, training_timers>>

\* the worker's run() ends with error(message)
WorkerError ==
    \E w \in Running :
        /\ workers' = [workers EXCEPT ![w].status = "error",
                          ![w].notifications =
                              @ \o Relayed(workers[w].kind, "error")]
        /\ ret' = [Ret("worker_error", "None")
                      EXCEPT !.worker = w, !.thread = "worker"]
        /\ UNCHANGED <<session, settings, settings_file, session_file,
                       handler_annotations, save_scheduled, export,
                       training_pipeline, task, task_running_emits,
                       task_running_queue, training_timers>>

\* the run directory _on_task_finished keeps, with the checks of the task
\* name and of the directory left out
StoredRunDirUnchecked(task_name, status, result, current) ==
    IF status = "finished" THEN result ELSE NoRunDir

\* the run directory _on_task_finished keeps: the result of a TrainingWorker
\* when it is a string naming an existing directory (an error passes None)
StoredRunDir(task_name, status, result, current) ==
    IF /\ task_name = "TrainingWorker"
       /\ status = "finished"
       /\ result \in ExistingRunDirs
    THEN result
    ELSE current

\* _on_task_finished(task_name, result), called by the lambda connected to
\* worker w's finished or error signal after the worker was moved to its
\* thread.  task_running(False) is emitted from that thread, so it is posted
\* to the event loop of the observers' thread.
OnTaskFinished ==
    \E w \in DOMAIN workers :
        /\ workers[w].status \in {"finished", "error"}
        /\ last_successful_run_dir' =
               StoredRunDir(workers[w].kind, workers[w].status,
                            workers[w].result, last_successful_run_dir)
        /\ blocking_task_running' = FALSE
        /\ task_running_emits' =
               IF blocking_task_running
               THEN [task_running_emits EXCEPT ![w] = @ + 1]
               ELSE task_running_emits
        /\ task_running_queue' =
               IF blocking_task_running
               THEN Append(task_running_queue, FALSE)
               ELSE task_running_queue
        /\ current_thread' = NoWorker
        /\ current_worker' = NoWorker
        /\ workers' = [workers EXCEPT ![w].status = "handled",
                                      ![w].replaced = FALSE]
        /\ ret' = [Ret("_on_task_finished", "None")
                      EXCEPT !.worker = w,
                             !.thread = SlotThread("lambda", "worker", "control"),
                             !.task_running = IF blocking_task_running
                                              THEN <<FALSE>> ELSE <<>>]
        \* QTimer.singleShot(50, self.save_session) after a run directory was
        \* stored; a pending timer need never fire
        /\ save_scheduled' =
               IF /\ workers[w].kind = "TrainingWorker"
                  /\ workers[w].status = "finished"
                  /\ workers[w].result \in ExistingRunDirs
               THEN AfterSingleShot(save_scheduled) ELSE save_scheduled
        /\ UNCHANGED <<image_list, current_index, annotations, approved_count,
                       class_list, settings, settings_file, session_file,
                       handler_annotations, export, training_pipeline,
                       training_timers>>

\* on_ml_task_running_changed(value) of the window, the observer of
\* task_running: the event loop of the control thread delivers a posted
\* emission
OnTaskRunningChanged ==
    /\ task_running_queue # <<>>
    /\ task_running_queue' = Tail(task_running_queue)
    /\ ret' = [Ret("on_ml_task_running_changed", "None")
                  EXCEPT !.thread = SlotThread("method", "worker", "control"),
                         !.delivered = <<Head(task_running_queue)>>,
                         !.observed = <<blocking_task_running>>]
    /\ UNCHANGED <<session, settings, settings_file, session_file,
                   handler_annotations, save_scheduled, export,
                   training_pipeline, task, workers, task_running_emits,
                   training_timers>>

\* the handle cleanup() leaves, with the teardown skipped when the wait for
\* the thread timed out
HandleAfterGracefulWait(handle, waited, stopped) ==
    IF waited /\ ~stopped THEN handle ELSE NoWorker

\* the handle cleanup() leaves: None, whether or not the thread was waited
\* for and whether or not the wait timed out
HandleAfterWait(handle, waited, stopped) == NoWorker

\* cleanup(): signal the running worker to stop, wait up to 7 s for its
\* thread, clear the handles and the flag.  stopped: the worker ended within
\* the wait (with finished or with error), else it is still running.
Cleanup ==
    \E stopped \in BOOLEAN, ending \in {"finished", "error"} :
        LET signalled == blocking_task_running /\ current_worker # NoWorker
            waited == current_thread # NoWorker /\ current_thread \in Running
            w1 == IF signalled
                  THEN [workers EXCEPT ![current_worker].stop = TRUE]
                  ELSE workers
            w2 == IF waited /\ stopped
                  THEN [w1 EXCEPT ![current_thread].status = ending,
                           ![current_thread].result =
                               IF w1[current_thread].kind = "TrainingWorker"
                                  /\ ending = "finished"
                               THEN StaleRunDir ELSE NoRunDir,
                           ![current_thread].notifications =
                               @ \o Relayed(w1[current_thread].kind, ending)]
                  ELSE w1
        IN /\ waited \/ (stopped /\ ending = "finished")
           /\ workers' = w2
           /\ current_worker' = HandleAfterWait(current_worker, waited, stopped)
           /\ current_thread' = HandleAfterWait(current_thread, waited, stopped)
           /\ blocking_task_running' = FALSE
           /\ ret' = [Ret("cleanup", "None") EXCEPT !.worker = current_worker]
           /\ UNCHANGED <<session, settings, settings_file, session_file,
                          handler_annotations, save_scheduled, export,
                          training_pipeline, task_running_emits,
                          task_running_queue, training_timers>>

\* ------------------------------------------------------------- construction
Init ==
    /\ image_list = <<>>
    /\ current_index = -1
    /\ annotations = EmptyMap
    /\ approved_count = 0
    /\ class_list = SortedSeq({1})
    /\ last_successful_run_dir = NoRunDir
    /\ settings = DefaultSettings
    /\ settings_file = MissingSettings
    /\ training_pipeline \in BOOLEAN
    /\ blocking_task_running = FALSE
    /\ current_thread = NoWorker
    /\ current_worker = NoWorker
    /\ workers = <<>>
    /\ task_running_emits = <<>>
    /\ task_running_queue = <<>>
    /\ session_file = MissingFile
    /\ handler_annotations = EmptyMap
    /\ save_scheduled = FALSE
    /\ export_pc = "idle"
    /\ original_handler_anns = EmptyMap
    /\ training_timers = <<>>
    /\ ret = Ret("init", "None")

\* ------------------------------------------------------ export_data_for_yolo
\* the annotations handed to the exporter, with every dict record taken
ExportAnnotationsAll(anns) == DictRecords(anns)

\* export_annotations: the records of the approved paths
ExportAnnotations(anns) == [p \in ApprovedPaths(anns) |-> anns[p]]

\* what dataset_handler.export_for_yolo does: it returns the path of the
\* dataset yaml, returns None, or raises
ExportReports == {"yaml_path", "None", "raises"}

\* export_data_for_yolo(target_dir) up to the call of the exporter;
\* class_to_id is the pipeline's class map, by the classes it holds.  The
\* call returns None, or sets the handler's annotations to the approved
\* records and calls dataset_handler.export_for_yolo.
ExportDataForYolo ==
    \E class_to_id \in {{}, Range(class_list)} :
        LET export_annotations == ExportAnnotations(annotations)
            refused ==
                IF ~training_pipeline THEN "pipeline missing"
                ELSE IF DOMAIN export_annotations = {} THEN "no approved images"
                ELSE IF class_to_id = {} THEN "class map empty"
                ELSE "none"
        IN /\ ControlIdle
           /\ IF refused # "none"
              THEN /\ ret' = [Ret("export_data_for_yolo", "None")
                                 EXCEPT !.signal = refused,
                                        !.class_to_id = class_to_id]
                   /\ UNCHANGED <<handler_annotations, export>>
              ELSE /\ original_handler_anns' = handler_annotations
                   /\ handler_annotations' = export_annotations
                   /\ export_pc' = "exporting"
                   /\ ret' = [Ret("export_for_yolo", "None")
                                 EXCEPT !.handed = export_annotations,
                                        !.class_to_id = class_to_id]
           /\ UNCHANGED <<session, settings, settings_file, session_file,
                          save_scheduled, training_pipeline, task, workers,
                          task_running_emits, task_running_queue,
                          training_timers>>

\* the exporter returns or raises: the finally clause puts the handler's
\* annotations back and export_data_for_yolo returns yaml_path
ExporterReturns ==
    \E report \in ExportReports :
        /\ export_pc = "exporting"
        /\ handler_annotations' = original_handler_anns
        /\ original_handler_anns' = EmptyMap
        /\ export_pc' = "idle"
        /\ ret' = [Ret("export_data_for_yolo",
                       IF report = "raises" THEN "None" ELSE report)
                      EXCEPT !.signal = report, !.handed = ret.handed,
                             !.class_to_id = ret.class_to_id]
        /\ UNCHANGED <<session, settings, settings_file, session_file,
                       save_scheduled, training_pipeline, task, workers,
                       task_running_emits, task_running_queue, training_timers>>

\* ----------------------------------------------------------- specifications
\* the export of the approved records of a session under edit
NextExport ==
    \/ ImportSession
    \/ AddAnnotation
    \/ ExportDataForYolo
    \/ ExporterReturns

SpecExport == Init /\ [][NextExport]_vars

\* the session aggregate under the operations of the control thread
NextSession ==
    \/ AddAnnotation
    \/ LoadSession
    \/ LoadImagesFromDirectory

SpecSession == Init /\ [][NextSession]_vars

\* the task supervisor: starts, worker endings, their slot, cleanup, over a
\* session whose records add_annotation edits
NextTask ==
    \/ AddAnnotation
    \/ StartPrediction
    \/ StartTrainingTask
    \/ WorkerFinished
    \/ WorkerError
    \/ OnTaskFinished
    \/ Cleanup

SpecTask == Init /\ [][NextTask]_vars

\* the session file under saves and loads of the session path, between
\* edits of the records, of the class list and of the image list
NextPersist ==
    \/ ImportSession
    \/ ApproveImage
    \/ UpdateClasses
    \/ SaveSession
    \/ FireSaveTimer
    \/ LoadSavedSession

SpecPersist == Init /\ [][NextPersist]_vars

\* the selection: sessions and directories are loaded and the window steps
\* through the images
NextNavigate ==
    \/ ImportSession
    \/ LoadImagesFromDirectory
    \/ NextImage
    \/ PrevImage
    \/ GoToImage

SpecNavigate == Init /\ [][NextNavigate]_vars

\* a session replaced while a training task runs
NextReplace ==
    \/ ImportSession
    \/ LoadImagesFromDirectory
    \/ StartTrainingTask
    \/ WorkerFinished
    \/ OnTaskFinished

SpecReplace == Init /\ [][NextReplace]_vars

\* the calls that set approved_count without an approval: a session or a
\* directory is loaded, the class list is edited
NextRecount ==
    \/ ReloadSession
    \/ UpdateClasses
    \/ LoadImagesFromDirectory

SpecRecount == Init /\ [][NextRecount]_vars

\* the notifications of the tasks: progress, the terminal signals, their
\* slot on the worker's thread, the delivery of task_running to the window
\* and cleanup, over a session loaded from a file
NextNotify ==
    \/ OpenSession
    \/ StartPrediction
    \/ StartTrainingTask
    \/ WorkerProgress
    \/ WorkerFinished
    \/ WorkerError
    \/ OnTaskFinished
    \/ OnTaskRunningChanged
    \/ Cleanup

SpecNotify == Init /\ [][NextNotify]_vars

\* the approval run of the window: a directory is opened and its images are
\* approved one after another, between edits of the enable flags
NextApprove ==
    \/ LoadImagesFromDirectory
    \/ ApproveImage
    \/ SetSetting

SpecApprove == Init /\ [][NextApprove]_vars

\* the settings under the callers of set_setting and get_setting, between
\* loads of the user settings file
NextSettings ==
    \/ ApplySetting
    \/ LoadSettings

SpecSettings == Init /\ [][NextSettings]_vars

\* the settings read after a load of the user settings file and edits of the
\* enable flags
NextRead ==
    \/ LoadSettings
    \/ SetSetting
    \/ GetSetting

SpecRead == Init /\ [][NextRead]_vars

\* ------------------------------------------------------------------- claims
\* the enable flags as add_annotation is meant to read them
Trigger20Enabled == Truthy(get_setting(settings, "training.trigger_20_enabled", PyBool(TRUE)))
Trigger100Enabled == Truthy(get_setting(settings, "training.trigger_100_enabled", PyBool(TRUE)))

\* the last call was add_annotation and made an absent or unapproved record
\* approved, with a pipeline to train
FreshApproval ==
    /\ ret.op = "add_annotation"
    /\ ret.now /\ ~ret.was
    /\ training_pipeline

C3_TrainingStartRefused ==
    [][(/\ ret'.op = "start_training_task"
        /\ (blocking_task_running \/ ApprovedPaths(annotations) = {}))
       => (/\ ret'.result = "False"
           /\ UNCHANGED <<task, workers, session>>)]_vars

\* a training start refused for want of approved images, on an idle
\* supervisor with a pipeline
C3_Witness ==
    /\ ret.op = "start_training_task" /\ ret.result = "False"
    /\ ret.signal = "No approved images"
    /\ training_pipeline /\ ~blocking_task_running
    /\ DOMAIN annotations # {}

\* C4: once a started task's worker has succeeded or failed and its slot
\* has run, or cleanup has force-cancelled it, is_task_active() is false and
\* task_running(False) has been emitted exactly once for that task.
C4_FinishedNotifiedOnce ==
    (ret.op \in {"_on_task_finished", "cleanup"} /\ ret.worker # NoWorker)
        => (/\ ~blocking_task_running
            /\ task_running_emits[ret.worker] = 1)

\* C5: from a session with no approved image, the approvals 1 to 19 produce
\* no training request and the 20th produces exactly one, of the minor tier,
\* with prefix mini_20.
C5_TwentiethApprovalTrains ==
    FreshApproval =>
        /\ approved_count < TRIGGER_20
              => (ret.request = NoRequest /\ training_timers = <<>>)
        /\ approved_count = TRIGGER_20
              => (/\ ret.request.level = TRIGGER_20
                  /\ ret.request.prefix = <<"mini", TRIGGER_20>>
                  /\ training_timers = <<ret.request>>)

\* C6: with both triggers enabled, a fresh approval reaching a positive
\* multiple of 100 requests the major-tier parameters with prefix
\* major_<count>, one reaching a multiple of 20 that is no multiple of 100
\* the minor-tier parameters with prefix mini_<count>.
C6_TierByCount ==
    (FreshApproval /\ Trigger20Enabled /\ Trigger100Enabled /\ approved_count > 0)
        => /\ approved_count % TRIGGER_100 = 0
                => ret.request =
                       [level |-> TRIGGER_100,
                        epochs |-> settings["training.epochs_100"],
                        lr |-> settings["training.lr_100"],
                        prefix |-> <<"major", approved_count>>]
           /\ (approved_count % TRIGGER_20 = 0 /\ approved_count % TRIGGER_100 # 0)
                => ret.request =
                       [level |-> TRIGGER_20,
                        epochs |-> settings["training.epochs_20"],
                        lr |-> settings["training.lr_20"],
                        prefix |-> <<"mini", approved_count>>]

\* C7: an add_annotation call schedules at most one training request, and
\* every fresh approval whose resulting count hits an enabled threshold
\* schedules exactly one, whatever is still scheduled.
C7_OneRequestPerCrossing ==
    [][ret'.op = "add_annotation"
       => /\ Len(training_timers') <= Len(training_timers) + 1
          /\ (/\ ret'.now /\ ~ret'.was /\ training_pipeline
              /\ TriggerLevel(approved_count', Trigger20Enabled,
                              Trigger100Enabled) # 0)
                => Len(training_timers') = Len(training_timers) + 1]_vars

C9_FlagsSelectTier ==
    (FreshApproval /\ approved_count > 0)
        => /\ (/\ ~Trigger100Enabled /\ Trigger20Enabled
               /\ approved_count % TRIGGER_100 = 0)
                => (/\ ret.request.level = TRIGGER_20
                    /\ ret.request.prefix = <<"mini", approved_count>>)
           /\ (/\ ~Trigger20Enabled
               /\ approved_count % TRIGGER_20 = 0
               /\ approved_count % TRIGGER_100 # 0)
                => ret.request = NoRequest
           /\ (~Trigger20Enabled /\ ~Trigger100Enabled)
                => ret.request = NoRequest

\* C10: add_annotation returns false exactly when the path is empty or the
\* record is no mapping, and otherwise stores the record and returns true
\* without raising.
C10_FalseOnlyOnInvalidInput ==
    ret.op = "add_annotation"
        => /\ ret.result \in {"True", "False"}
           /\ ret.result = "False" <=> (ret.path = EmptyPath \/ ~ret.is_dict)
           /\ ret.result = "True"
                => (ret.path \in DOMAIN annotations
                    /\ IsDict(annotations[ret.path]))

\* C11: the session aggregate is mutated only on the control thread: the
\* update of last_successful_run_dir and of the task state when a worker
\* ends is made by a call that runs on the control thread.
C11_HandlerOnControlThread ==
    ret.op = "_on_task_finished" => ret.thread = "control"

\* C12: whenever an observer receives task_running(False), is_task_active()
\* returns false at that moment.
C12_ObserverFindsInactive ==
    \A i \in DOMAIN ret.delivered :
        ret.delivered[i] = FALSE => ret.observed[i] = FALSE

C14_CleanupCompletes ==
    /\ [](ENABLED Cleanup)
    /\ [][ret'.op = "cleanup"
            => /\ ~blocking_task_running'
               /\ current_thread' = NoWorker
               /\ current_worker' = NoWorker
               /\ (blocking_task_running /\ current_worker # NoWorker)
                    => workers'[current_worker].stop]_vars

\* cleanup() returned although the worker it signalled is still running
C14_Witness ==
    /\ ret.op = "cleanup"
    /\ ret.worker # NoWorker
    /\ workers[ret.worker].status = "running"
    /\ workers[ret.worker].stop
    /\ ~blocking_task_running
    /\ current_thread = NoWorker
    /\ current_worker = NoWorker

C17_LoadPrunesForeignKeys ==
    (ret.op = "load_session" /\ ret.file.exists /\ ret.file.parseable)
        => /\ DOMAIN annotations =
                  DOMAIN ret.file.annotations \cap Range(ret.file.image_list)
           /\ \A p \in DOMAIN annotations :
                  annotations[p] = ret.file.annotations[p]
           /\ approved_count = Cardinality(ApprovedPaths(annotations))

\* a file with an approved record for a path outside its image_list was
\* loaded
C17_Witness ==
    /\ ret.op = "load_session"
    /\ ret.file.exists /\ ret.file.parseable
    /\ \E p \in DOMAIN ret.file.annotations :
          /\ p \notin Range(ret.file.image_list)
          /\ IsApproved(ret.file.annotations[p])
          /\ p \notin DOMAIN annotations
    /\ approved_count = 1

\* C18: load_session of a file that exists but cannot be parsed returns
\* false and leaves the six fields of the aggregate as they were.
C18_UnparseableLeavesState ==
    [][(ret'.op = "load_session" /\ ret'.file.exists /\ ~ret'.file.parseable)
          => (ret'.result = "False" /\ UNCHANGED session)]_vars

\* an unparseable file was loaded over a session with images, records and a
\* run directory
C18_Witness ==
    /\ ret.op = "load_session"
    /\ ret.file.exists /\ ~ret.file.parseable
    /\ ret.result = "False"
    /\ image_list # <<>>
    /\ approved_count > 0
    /\ last_successful_run_dir # NoRunDir

\* C19: load_session of a path that does not exist returns true and leaves
\* image_list and annotations empty, current_index -1, approved_count 0 and
\* last_successful_run_dir none.
C19_MissingFileResets ==
    [][(ret'.op = "load_session" /\ ~ret'.file.exists)
          => /\ ret'.result = "True"
             /\ image_list' = <<>>
             /\ annotations' = EmptyMap
             /\ current_index' = -1
             /\ approved_count' = 0
             /\ last_successful_run_dir' = NoRunDir]_vars

\* a missing file was loaded after a session changed the class list
C19_Witness ==
    /\ ret.op = "load_session"
    /\ ~ret.file.exists
    /\ ret.result = "True"
    /\ image_list = <<>>
    /\ class_list # SortedSeq({1})

\* the stored index clamped into [0, n - 1]
Clamped(index, n) ==
    IF index < 0 THEN 0 ELSE IF index > n - 1 THEN n - 1 ELSE index

\* C20, as stated: after a successful load current_index is the stored
\* index clamped into [0, len(image_list) - 1], and -1 for an empty list.
C20_IndexClamped ==
    (ret.op = "load_session" /\ ret.file.exists /\ ret.file.parseable)
        => current_index = IF image_list = <<>> THEN -1
                           ELSE Clamped(ret.file.current_index, Len(image_list))

\* C20, amended: after a successful load current_index is the stored index
\* when that is in [0, len(image_list) - 1]; any other stored index becomes
\* 0, or -1 for an empty list.
C20_IndexKeptOrReset ==
    (ret.op = "load_session" /\ ret.file.exists /\ ret.file.parseable)
        => /\ (0 <= ret.file.current_index
                 /\ ret.file.current_index < Len(image_list))
                => current_index = ret.file.current_index
           /\ (ret.file.current_index < 0
                 \/ ret.file.current_index >= Len(image_list))
                => current_index = IF image_list = <<>> THEN -1 ELSE 0

\* a file whose index lies beyond its last image was loaded
C20_Witness ==
    /\ ret.op = "load_session"
    /\ ret.file.exists /\ ret.file.parseable
    /\ ret.file.current_index >= Len(image_list)
    /\ image_list # <<>>
    /\ current_index = 0

C22_DifferentSetResetsToZero ==
    [][(/\ ret'.op = "load_images_from_directory"
        /\ ret'.result = "None"
        /\ Range(ret'.listing) # Range(image_list))
          => /\ image_list' = ret'.listing
             /\ annotations' = EmptyMap
             /\ current_index' = 0
             /\ approved_count' = 0
             /\ last_successful_run_dir' = NoRunDir]_vars

\* C22, amended: load_images_from_directory of a directory whose image set
\* differs from image_list makes image_list the sorted listing and resets
\* the session: annotations empty, approved_count 0,
\* last_successful_run_dir none, and current_index 0, or -1 when the
\* directory holds no supported image.
C22_DifferentSetResets ==
    [][(/\ ret'.op = "load_images_from_directory"
        /\ ret'.result = "None"
        /\ Range(ret'.listing) # Range(image_list))
          => /\ image_list' = ret'.listing
             /\ image_list' = SortedSeq(Range(ret'.listing))
             /\ annotations' = EmptyMap
             /\ current_index' = IF ret'.listing = <<>> THEN -1 ELSE 0
             /\ approved_count' = 0
             /\ last_successful_run_dir' = NoRunDir]_vars

\* a directory with other images than the session's was loaded
C22_Witness ==
    /\ ret.op = "load_images_from_directory"
    /\ ret.signal = "reset"
    /\ image_list = ret.listing
    /\ Len(image_list) = SmallDirSize
    /\ current_index = 0
    /\ annotations = EmptyMap

\* C23: update_classes with a changed class list removes from every
\* non-negative annotation record exactly the boxes whose class is not in
\* the new list, leaves the negative records as they are, and leaves every
\* record's approved flag unchanged.
C23_BoxesFilteredByClass ==
    [][(ret'.op = "update_classes" /\ class_list' # class_list)
          => \A p \in DOMAIN annotations :
                IsDict(annotations[p])
                  => /\ p \in DOMAIN annotations'
                     /\ annotations'[p].approved = annotations[p].approved
                     /\ annotations[p].negative
                           => annotations'[p] = annotations[p]
                     /\ ~annotations[p].negative
                           => annotations'[p].annotations_list =
                                 SelectSeq(annotations[p].annotations_list,
                                           LAMBDA b : b \in Range(class_list'))]_vars

\* the class list lost class 3: the approved image lost its boxes of class
\* 3 and without a class, the negative image kept them
C23_Witness ==
    /\ ret.op = "update_classes"
    /\ class_list = <<1>>
    /\ DOMAIN annotations = {1, 2}
    /\ annotations[1] = Rec(<<3, 1, 0>>, TRUE, TRUE)
    /\ annotations[2] = Rec(<<1>>, TRUE, FALSE)

\* C24: update_classes, load_session and load_images_from_directory never
\* schedule a training request, whatever approved_count is after the call,
\* a positive multiple of 20 or 100 included; only add_annotation does.
C24_NoTrainingWithoutApproval ==
    [][ret'.op \in {"update_classes", "load_session",
                    "load_images_from_directory"}
          => training_timers' = training_timers]_vars

\* with a pipeline, the class list of a session with 20 approved images
\* was changed and no training is scheduled
C24_Witness ==
    /\ training_pipeline
    /\ ret.op = "update_classes"
    /\ ret.signal = "ok"
    /\ approved_count = TRIGGER_20
    /\ approved_count = Cardinality(ApprovedPaths(annotations))
    /\ training_timers = <<>>

\* C25: after any sequence of session operations current_index is -1 or a
\* valid index into image_list.
C25_IndexValid ==
    \/ current_index = -1
    \/ (0 <= current_index /\ current_index < Len(image_list))

\* next_image() was refused at the last image of the directory
C25_Witness ==
    /\ ret.op = "next_image"
    /\ ret.result = "False"
    /\ Len(image_list) = NumImages
    /\ current_index = NumImages - 1

\* C26: next_image, prev_image and go_to_image(i) never raise; each returns
\* true after moving current_index by one step or to i, and returns false
\* with current_index unchanged at the boundary, on an empty image_list, or
\* for an i out of range.
C26_NavigationReturns ==
    [][/\ ret'.op \in {"next_image", "prev_image", "go_to_image"}
            => ret'.result \in {"True", "False"}
       /\ ret'.op = "next_image"
            => IF image_list # <<>> /\ current_index < Len(image_list) - 1
               THEN ret'.result = "True" /\ current_index' = current_index + 1
               ELSE ret'.result = "False" /\ current_index' = current_index
       /\ ret'.op = "prev_image"
            => IF image_list # <<>> /\ current_index > 0
               THEN ret'.result = "True" /\ current_index' = current_index - 1
               ELSE ret'.result = "False" /\ current_index' = current_index
       /\ ret'.op = "go_to_image"
            => IF /\ image_list # <<>>
                  /\ ret'.index \in 0..(Len(image_list) - 1)
               THEN ret'.result = "True" /\ current_index' = ret'.index
               ELSE ret'.result = "False" /\ current_index' = current_index]_vars

\* go_to_image(len(image_list)) was refused and the selection stayed on
\* another image
C26_Witness ==
    /\ ret.op = "go_to_image"
    /\ ret.result = "False"
    /\ ret.index = Len(image_list)
    /\ image_list # <<>>
    /\ current_index \in 1..(Len(image_list) - 1)

\* C27: an add_annotation that returns true schedules a save and does not
\* write the session file inside the call; when the last scheduled save has
\* fired and written the file, with no mutation since, the file holds the
\* image_list, annotations, current_index, class_list and last run
\* directory of memory.
C27_ScheduledSaveReachesDisk ==
    [][/\ (ret'.op = "add_annotation" /\ ret'.result = "True")
            => save_scheduled' /\ session_file' = session_file
       /\ (ret'.op = "save_timer" /\ ret'.signal = "ok" /\ ~save_scheduled')
            => /\ session_file'.exists /\ session_file'.parseable
               /\ session_file'.image_list = image_list'
               /\ session_file'.annotations = annotations'
               /\ session_file'.current_index = current_index'
               /\ session_file'.class_list = class_list'
               /\ session_file'.last_successful_run_dir =
                      last_successful_run_dir']_vars

\* without a pipeline every approval returns true; the last save the
\* approvals scheduled has fired and the file holds the records of memory
C27_Witness ==
    /\ ~training_pipeline
    /\ ret.op = "save_timer"
    /\ ret.signal = "ok"
    /\ ~save_scheduled
    /\ ApprovedPaths(annotations) # {}
    /\ session_file.annotations = annotations
    /\ session_file.image_list = image_list

\* C28: a start_prediction or start_training_task call that is rejected
\* while a task is running is reported through the error signal as the busy
\* condition, whatever else holds of the state.
C28_BusyReportedAsBusy ==
    (/\ ret.op \in {"start_prediction", "start_training_task"}
     /\ ret.result = "False"
     /\ blocking_task_running)
        => ret.signal = "Busy"

\* C29: export_data_for_yolo does not mutate the annotation store even
\* transiently: while the exporter runs, an exporter that raises included,
\* the annotations the dataset handler shows to other code are the full
\* content they had before the export.
C29_ExportNeverMutatesStore ==
    export_pc = "exporting" => handler_annotations = original_handler_anns

C34_StaleCallbackKeepsTask ==
    [][(/\ ret'.op = "_on_task_finished"
        /\ current_worker # NoWorker
        /\ ret'.worker # current_worker)
          => UNCHANGED <<blocking_task_running, current_thread,
                         current_worker>>]_vars

\* C37: after any sequence of operations, add_annotation included, every
\* key of annotations is a path of image_list.
C37_KeysInImageList == DOMAIN annotations \subseteq Range(image_list)

\* C38: update_classes never changes which paths have annotation records
\* nor the approved or negative flag of a well-formed record, and
\* approved_count is the same before and after the call.
C38_UpdateClassesKeepsRecords ==
    [][ret'.op = "update_classes"
          => /\ DOMAIN annotations' = DOMAIN annotations
             /\ \A p \in DOMAIN annotations \cap DOMAIN annotations' :
                    IsDict(annotations[p])
                      => /\ annotations'[p].approved = annotations[p].approved
                         /\ annotations'[p].negative = annotations[p].negative
             /\ approved_count' = approved_count]_vars

\* C36: after load_images_from_directory or load_session has replaced the
\* session, last_successful_run_dir is never set to the run directory of a
\* training task that was started before the replacement.
C36_RunDirOfCurrentSession ==
    [][(ret'.op = "_on_task_finished" /\ workers[ret'.worker].replaced)
          => last_successful_run_dir' = last_successful_run_dir]_vars

\* C35: a training request scheduled by add_annotation that fires while
\* another task is running is rejected with the busy error and is neither
\* queued nor retried: the timer is spent, no worker is created, and the
\* handling of the finished task starts no training.
C35_BusyRequestDropped ==
    [][/\ (/\ ret'.op = "start_training_task"
            /\ training_timers # <<>>
            /\ training_timers' = Tail(training_timers)
            /\ blocking_task_running)
              => /\ ret'.result = "False"
                 /\ ret'.signal = "Busy"
                 /\ DOMAIN workers' = DOMAIN workers
       /\ ret'.op = "_on_task_finished"
              => /\ DOMAIN workers' = DOMAIN workers
                 /\ training_timers' = training_timers]_vars

\* a request of add_annotation is pending while a task is running
C35_RequestPendingWhileBusy ==
    training_timers # <<>> /\ blocking_task_running

\* the outcome of converting the value of the last set_setting call to the
\* declared type of its key
C31_Conversion == Coerced(ExpectedType(ret.key), ret.value)

\* C31: set_setting with a value that cannot be coerced to the key's
\* declared type leaves the settings store unchanged, persists nothing,
\* emits no settings_changed notification and raises no exception.
C31_CoercionFailureIsNoOp ==
    [][(ret'.op = "set_setting" /\ C31_Conversion'.raised # "none")
          => /\ settings' = settings
             /\ settings_file' = settings_file
             /\ ret'.emitted = 0
             /\ ret'.result = "None"]_vars

\* C32: a set_setting whose coerced value differs from the stored one
\* updates the store and emits settings_changed exactly once, and the
\* settings file then holds the store when the write succeeded; a
\* set_setting whose coerced value equals the stored one changes nothing,
\* persists nothing and emits nothing.
C32_StoreOnChangeOnly ==
    [][(ret'.op = "set_setting" /\ C31_Conversion'.raised = "none")
          => LET key == ret'.key
                 new_value == C31_Conversion'.value
             IN IF PyEq(OriginalValue(settings, key), new_value)
                THEN /\ settings' = settings
                     /\ settings_file' = settings_file
                     /\ ret'.emitted = 0
                ELSE /\ settings' = (key :> new_value) @@ settings
                     /\ ret'.emitted = 1
                     /\ ret'.signal = "ok"
                           => settings_file' = SettingsData(settings')]_vars

\* a numeral was set on the int setting: the store holds its number, the
\* file holds the store and one notification was emitted
C32_Witness ==
    /\ ret.op = "set_setting"
    /\ ret.key = "training.epochs_20"
    /\ ret.value.type = "str"
    /\ settings[ret.key] = PyInt(DEFAULT_EPOCHS_20 + 1)
    /\ ret.emitted = 1
    /\ ret.signal = "ok"
    /\ settings_file = SettingsData(settings)

\* the stored value of a key is of the type of its registered default
C33_WellTyped(key) ==
    /\ key \in DOMAIN settings
    /\ ExpectedType(key) \in {"NoneType", settings[key].type}

\* C33: get_setting never raises and returns the stored value only when it
\* is present and of the key's declared type; otherwise it returns the
\* key's registered default, and the caller's fallback only when the key
\* has no registered default.
C33_GetSettingReturnsWellTyped ==
    ret.op = "get_setting"
        => /\ ret.result = "None"
           /\ ret.value = IF C33_WellTyped(ret.key) THEN settings[ret.key]
                          ELSE IF ret.key \in DOMAIN DefaultSettings
                               THEN DefaultSettings[ret.key]
                               ELSE ret.default

====
